---- MODULE Spec2Model ----
(***************************************************************************)
(* Model of yt_statistics.py: construction of a Statistics snapshot.       *)
(*                                                                         *)
(* Python values: a str is a TLA+ string, None is the string "None" (no    *)
(* string of the model's pools spells it), a dict is a function whose      *)
(* DOMAIN is its key set, a list is a sequence, a datetime is the tuple    *)
(* <<year, month, day, hour, minute, second, microsecond>>.  Where a       *)
(* datetime or a list is expected, None is NoDate or NoHistogram.  The     *)
(* tags list of a video is passed through untouched by the program and is  *)
(* kept as an opaque token.                                                *)
(***************************************************************************)
EXTENDS Integers, Sequences, FiniteSets, TLC

VARIABLES
    pc,                  \* where __init__ stands
    error,               \* the exception that left __init__, None if none
    youtube_client, liked_songs, all_categories_map, categories_histogram,
    categories_histogram_last_month, favourite_channels,
    favourite_channels_last_month,        \* the fields of Statistics
    result, page_token,  \* locals of get_all_liked_videos
    pages,               \* the responses the running get_all_liked_videos got
    request,             \* the last request built
    videos_requests,     \* number of videos().list requests executed
    category_requests,   \* number of videoCategories().list requests executed
    lookup_items,        \* response['items'] of the category lookup
    clock,               \* the last reading of datetime.now()
    since1, since2,      \* the cutoffs the two last_month() calls returned
    log                  \* the error lines written

vars == <<pc, error, youtube_client, liked_songs, all_categories_map,
          categories_histogram, categories_histogram_last_month,
          favourite_channels, favourite_channels_last_month, result,
          page_token, pages, request, videos_requests, category_requests,
          lookup_items, clock, since1, since2, log>>

None == "None"

\* Bounds of the collaborator's answers during a construction.
MaxPages == 3
MaxVideos == 2
MaxCategories == 1

\* Bounds of the inputs the functions are applied to on their own.
MaxSongs == 3
MaxLookup == 3

maxResults == 50

(***************************************************************************)
(* dict.get(key): the value, or None when the key is missing.              *)
(***************************************************************************)
Get(d, k) == IF k \in DOMAIN d THEN d[k] ELSE None

(***************************************************************************)
(* shape_item                                                              *)
(***************************************************************************)
shape_item(item) ==
    LET snippet == item["snippet"]
    IN  [publishedAt  |-> Get(snippet, "publishedAt"),
         title        |-> Get(snippet, "title"),
         channelTitle |-> Get(snippet, "channelTitle"),
         tags         |-> Get(snippet, "tags"),
         categoryId   |-> Get(snippet, "categoryId")]

response_to_video_list(response) ==
    [i \in 1..Len(response["items"]) |-> shape_item(response["items"][i])]

(***************************************************************************)
(* datetime.strptime(s, '%Y-%m-%dT%H:%M:%SZ').  The format is compiled to  *)
(* a regular expression: %Y is four digits, the other fields are one or    *)
(* two digits within the field's range (%d also a space and a digit), the  *)
(* other characters stand for themselves, and the whole string must be     *)
(* consumed.  The fields are then checked by the datetime constructor.     *)
(* Any failure is a ValueError.                                            *)
(***************************************************************************)
Digits == <<"0", "1", "2", "3", "4", "5", "6", "7", "8", "9">>

IsDigit(c) == \E i \in 1..10 : Digits[i] = c

DigitVal(c) == (CHOOSE i \in 1..10 : Digits[i] = c) - 1

Char(s, i) == SubSeq(s, i, i)

AllDigits(s, from, to) == \A i \in from..to : IsDigit(Char(s, i))

RECURSIVE Number(_, _, _)
Number(s, from, to) ==
    IF to < from THEN 0
    ELSE 10 * Number(s, from, to - 1) + DigitVal(Char(s, to))

Format == <<"Y", "-", "m", "-", "d", "T", "H", ":", "M", ":", "S", "Z">>

Directives == {"Y", "m", "d", "H", "M", "S"}

\* The text s[from..to] is in the language of the directive's expression.
FieldMatches(dir, s, from, to) ==
    LET w == to - from + 1
        n == Number(s, from, to)
    IN  CASE dir = "Y" -> w = 4 /\ AllDigits(s, from, to)
          [] dir = "m" -> /\ w \in {1, 2} /\ AllDigits(s, from, to)
                          /\ n \in 1..12
          [] dir = "d" -> \/ /\ w \in {1, 2} /\ AllDigits(s, from, to)
                             /\ n \in 1..31
                          \/ /\ w = 2 /\ Char(s, from) = " "
                             /\ IsDigit(Char(s, to)) /\ Char(s, to) # "0"
          [] dir = "H" -> /\ w \in {1, 2} /\ AllDigits(s, from, to)
                          /\ n \in 0..23
          [] dir = "M" -> /\ w \in {1, 2} /\ AllDigits(s, from, to)
                          /\ n \in 0..59
          [] dir = "S" -> /\ w \in {1, 2} /\ AllDigits(s, from, to)
                          /\ n \in 0..61

FieldValue(s, from, to) ==
    IF Char(s, from) = " " THEN Number(s, from + 1, to)
    ELSE Number(s, from, to)

Widths(dir) == IF dir = "Y" THEN <<4>> ELSE <<2, 1>>

NoMatch == [ok |-> FALSE]

\* Match Format[i..] against s[pos..]; acc holds the fields found so far.
RECURSIVE Match(_, _, _, _)
RECURSIVE MatchField(_, _, _, _, _)
Match(s, pos, i, acc) ==
    IF i > Len(Format)
    THEN IF pos = Len(s) + 1 THEN [ok |-> TRUE, fields |-> acc] ELSE NoMatch
    ELSE IF Format[i] \in Directives
    THEN MatchField(s, pos, i, acc, 1)
    ELSE IF pos <= Len(s) /\ Char(s, pos) = Format[i]
    THEN Match(s, pos + 1, i + 1, acc)
    ELSE NoMatch

MatchField(s, pos, i, acc, k) ==
    IF k > Len(Widths(Format[i])) THEN NoMatch
    ELSE LET to == pos + Widths(Format[i])[k] - 1
             rest == IF to <= Len(s) /\ FieldMatches(Format[i], s, pos, to)
                     THEN Match(s, to + 1, i + 1,
                                Append(acc, FieldValue(s, pos, to)))
                     ELSE NoMatch
         IN  IF rest.ok THEN rest ELSE MatchField(s, pos, i, acc, k + 1)

IsLeap(y) == y % 4 = 0 /\ (y % 100 # 0 \/ y % 400 = 0)

DaysInMonth(y, m) ==
    IF m = 2 THEN (IF IsLeap(y) THEN 29 ELSE 28)
    ELSE IF m \in {4, 6, 9, 11} THEN 30 ELSE 31

strptime(s) ==
    LET found == Match(s, 1, 1, << >>)
    IN  IF ~found.ok THEN NoMatch
        ELSE LET f == found.fields
             IN  IF /\ f[1] >= 1
                    /\ f[3] <= DaysInMonth(f[1], f[2])
                    /\ f[6] <= 59
                 THEN [ok |-> TRUE,
                       dt |-> <<f[1], f[2], f[3], f[4], f[5], f[6], 0>>]
                 ELSE NoMatch

\* datetime comparison a > b
RECURSIVE After(_, _, _)
After(a, b, i) ==
    IF i > 7 THEN FALSE
    ELSE IF a[i] # b[i] THEN a[i] > b[i]
    ELSE After(a, b, i + 1)

\* Faulty variant: published_at >= date
is_published_at_or_after(video, date) ==
    IF video.publishedAt = None THEN "TypeError"
    ELSE LET p == strptime(video.publishedAt)
         IN  IF ~p.ok THEN "ValueError" ELSE
             IF ~After(date, p.dt, 1) THEN "True" ELSE "False"

(***************************************************************************)
(* is_published_after.  "TypeError": strptime raises it for a publishedAt   *)
(* that is None, and the function catches ValueError only.  "ValueError":  *)
(* the string does not parse, an error line is written and False is        *)
(* returned.  Else "True" or "False", the value of published_at > date.    *)
(***************************************************************************)
is_published_after(video, date) ==
    IF video.publishedAt = None THEN "TypeError"
    ELSE LET p == strptime(video.publishedAt)
         IN  IF ~p.ok THEN "ValueError" ELSE
             IF After(p.dt, date, 1) THEN "True" ELSE "False"

(***************************************************************************)
(* last_month: now + relativedelta(months=-1)                              *)
(***************************************************************************)
last_month(now) ==
    LET month == IF now[2] - 1 < 1 THEN now[2] - 1 + 12 ELSE now[2] - 1
        year  == IF now[2] - 1 < 1 THEN now[1] - 1 ELSE now[1]
        dim   == DaysInMonth(year, month)
        day   == IF now[3] < dim THEN now[3] ELSE dim
    IN  <<year, month, day, now[4], now[5], now[6], now[7]>>

(***************************************************************************)
(* The list comprehension of get_categories_histogram and                  *)
(* get_favourite_channels: walks the songs in order; verdict of the        *)
(* condition `since is None or is_published_after(song, since)` per song.  *)
(* NoDate stands for since=None.                                           *)
(***************************************************************************)
NoDate == << >>

\* None in a field that otherwise holds a histogram (a list of pairs).
NoHistogram == <<None>>

\* Faulty variant: the date is parsed even without a cutoff.
Verdict_parsing_always(song, since) ==
    IF since = NoDate
    THEN (IF song.publishedAt # None /\ strptime(song.publishedAt).ok
          THEN "True" ELSE "ValueError")
    ELSE is_published_after(song, since)

Verdict(song, since) ==
    IF since = NoDate THEN "True" ELSE is_published_after(song, since)

\* The verdicts of the songs, in order.
RECURSIVE Verdicts(_, _, _)
Verdicts(songs, since, upto) ==
    IF upto = 0 THEN << >>
    ELSE Append(Verdicts(songs, since, upto - 1), Verdict(songs[upto], since))

\* Index of the first verdict that is an exception, Len(v) + 1 if none.
RaisedAt(v) ==
    LET bad == {i \in 1..Len(v) : v[i] = "TypeError"}
    IN  IF bad = {} THEN Len(v) + 1
        ELSE CHOOSE i \in bad : \A j \in bad : i <= j

\* The error lines is_published_after writes for the first upto songs.
RECURSIVE ErrorLines(_, _)
ErrorLines(v, upto) ==
    IF upto = 0 THEN << >>
    ELSE LET before == ErrorLines(v, upto - 1)
         IN  IF v[upto] = "ValueError"
             THEN Append(before, "Incorrect published_at format")
             ELSE before

\* The songs the comprehension keeps.
RECURSIVE Selected(_, _, _)
Selected(songs, v, upto) ==
    IF upto = 0 THEN << >>
    ELSE LET before == Selected(songs, v, upto - 1)
         IN  IF v[upto] = "True" THEN Append(before, songs[upto]) ELSE before

(***************************************************************************)
(* return_histogram: Counter(values).most_common().  Counter keeps its     *)
(* keys in insertion order; most_common sorts the (value, count) pairs by  *)
(* count, largest first, with a stable sort.                               *)
(***************************************************************************)
RECURSIVE Counter(_)
Counter(values) ==
    IF values = << >> THEN << >>
    ELSE LET c == Counter(SubSeq(values, 1, Len(values) - 1))
             v == values[Len(values)]
             at == {i \in 1..Len(c) : c[i][1] = v}
         IN  IF at = {} THEN Append(c, <<v, 1>>)
             ELSE LET i == CHOOSE j \in at : TRUE
                  IN  [c EXCEPT ![i] = <<v, c[i][2] + 1>>]

\* Faulty variant: e goes in front of the pairs of equal count.
Insert_before_equal(sorted, e) ==
    LET ahead == {i \in 1..Len(sorted) : sorted[i][2] > e[2]}
        k == Cardinality(ahead)
    IN  SubSeq(sorted, 1, k) \o <<e>> \o SubSeq(sorted, k + 1, Len(sorted))

\* Insert e behind every pair whose count is not smaller.
Insert(sorted, e) ==
    LET ahead == {i \in 1..Len(sorted) : sorted[i][2] >= e[2]}
        k == Cardinality(ahead)
    IN  SubSeq(sorted, 1, k) \o <<e>> \o SubSeq(sorted, k + 1, Len(sorted))

RECURSIVE most_common(_)
most_common(items) ==
    IF items = << >> THEN << >>
    ELSE Insert(most_common(SubSeq(items, 1, Len(items) - 1)),
                items[Len(items)])

return_histogram(values) == most_common(Counter(values))

\* Outcome of a decorated call: the exception raised (None if none), the
\* histogram returned, and the error lines written.
Outcome(v, values) ==
    LET at == RaisedAt(v)
    IN  IF at <= Len(v)
        THEN [raised |-> "TypeError", histogram |-> << >>,
              lines |-> ErrorLines(v, at - 1)]
        ELSE [raised |-> None, histogram |-> return_histogram(values),
              lines |-> ErrorLines(v, Len(v))]

category_of(map, song) == Get(map, song.categoryId)

channel_of(song) == song.channelTitle

RECURSIVE CategoryValues(_, _)
CategoryValues(map, sel) ==
    IF sel = << >> THEN << >>
    ELSE Append(CategoryValues(map, SubSeq(sel, 1, Len(sel) - 1)),
                category_of(map, sel[Len(sel)]))

RECURSIVE ChannelValues(_)
ChannelValues(sel) ==
    IF sel = << >> THEN << >>
    ELSE Append(ChannelValues(SubSeq(sel, 1, Len(sel) - 1)),
                channel_of(sel[Len(sel)]))

get_categories_histogram(songs, map, since) ==
    LET v == Verdicts(songs, since, Len(songs))
    IN  Outcome(v, CategoryValues(map, Selected(songs, v, Len(songs))))

get_favourite_channels(songs, since) ==
    LET v == Verdicts(songs, since, Len(songs))
    IN  Outcome(v, ChannelValues(Selected(songs, v, Len(songs))))

(***************************************************************************)
(* get_categories_map, from the ids onwards.  In the assignment            *)
(* categories_map[category['id']] = category['snippet']['title'] the right *)
(* side is evaluated first; either missing key is a KeyError, caught and   *)
(* logged, and the loop goes on.                                           *)
(***************************************************************************)
WellFormed(category) ==
    /\ "snippet" \in DOMAIN category
    /\ "title" \in DOMAIN category["snippet"]
    /\ "id" \in DOMAIN category

\* Faulty variant: the try encloses the loop, the first KeyError ends it.
RECURSIVE build_until_malformed(_)
build_until_malformed(items) ==
    IF items = << >> THEN << >>
    ELSE LET before == SubSeq(items, 1, Len(items) - 1)
             category == items[Len(items)]
         IN  IF \A i \in 1..Len(items) : WellFormed(items[i])
             THEN (category["id"] :> category["snippet"]["title"])
                      @@ build_until_malformed(before)
             ELSE build_until_malformed(before)

RECURSIVE build_categories_map(_)
build_categories_map(items) ==
    IF items = << >> THEN << >>
    ELSE LET m == build_categories_map(SubSeq(items, 1, Len(items) - 1))
             category == items[Len(items)]
         IN  IF WellFormed(category)
             THEN (category["id"] :> category["snippet"]["title"]) @@ m
             ELSE m

RECURSIVE category_error_lines(_)
category_error_lines(items) ==
    IF items = << >> THEN << >>
    ELSE LET l == category_error_lines(SubSeq(items, 1, Len(items) - 1))
         IN  IF WellFormed(items[Len(items)]) THEN l
             ELSE Append(l, "Incorrect category body")

categories_ids(songs) == {songs[i].categoryId : i \in 1..Len(songs)}

\* ','.join(ids) for one iteration order of the set.
RECURSIVE Join(_)
Join(order) ==
    IF order = << >> THEN ""
    ELSE IF Len(order) = 1 THEN order[1]
    ELSE Join(SubSeq(order, 1, Len(order) - 1)) \o "," \o order[Len(order)]

Orders(S) ==
    {o \in [1..Cardinality(S) -> S] :
        \A i, j \in 1..Cardinality(S) : i # j => o[i] # o[j]}

(***************************************************************************)
(* What the collaborator may answer.                                       *)
(***************************************************************************)
Tokens == {"T1", "T2"}

RawVideos ==
    { [snippet |-> [description |-> "d", publishedAt |-> "2026-11-03T10:00:00Z",
                    title |-> "t1", channelTitle |-> "A", tags |-> "rock,live",
                    categoryId |-> "10"]],
      [snippet |-> [description |-> "d", publishedAt |-> "2026-09-05T10:00:00Z",
                    title |-> "t2", channelTitle |-> "B",
                    categoryId |-> "10"]],
      [snippet |-> [description |-> "d", publishedAt |-> "2026-10-05T12:00:00Z",
                    title |-> "t3", channelTitle |-> "A",
                    categoryId |-> "20"]],
      [snippet |-> [description |-> "d",
                    publishedAt |-> "2026-11-03T10:00:00.000Z",
                    title |-> "t4", categoryId |-> "20"]],
      [snippet |-> [description |-> "d", publishedAt |-> "2026-11-03T10:00:00Z",
                    title |-> "t5", channelTitle |-> "B"]],
      [snippet |-> [description |-> "d", channelTitle |-> "A",
                    categoryId |-> "10"]] }

RawCategories ==
    { [id |-> "10", snippet |-> [assignable |-> "true", title |-> "Music"]],
      [id |-> "20", snippet |-> [assignable |-> "true", title |-> "Film"]],
      [id |-> "10", snippet |-> [assignable |-> "true"]],
      [id |-> "20"],
      [snippet |-> [assignable |-> "true", title |-> "Comedy"]] }

SeqsUpTo(S, n) == UNION {[1..k -> S] : k \in 0..n}

\* The lookup answers one object per id at most.
DistinctIds(items) ==
    \A i, j \in 1..Len(items) :
        (i # j /\ "id" \in DOMAIN items[i] /\ "id" \in DOMAIN items[j])
            => items[i]["id"] # items[j]["id"]

LookupAnswers(n) == {items \in SeqsUpTo(RawCategories, n) : DistinctIds(items)}

Clock ==
    { <<2026, 11, 5, 11, 59, 59, 500000>>,
      <<2026, 11, 5, 12, 0, 0, 0>>,
      <<2027, 3, 31, 9, 0, 0, 0>> }

\* The raw items of the pages, in the order served.
RECURSIVE RawItems(_)
RawItems(ps) ==
    IF ps = << >> THEN << >>
    ELSE RawItems(SubSeq(ps, 1, Len(ps) - 1)) \o ps[Len(ps)]["items"]

NoRequest == [api |-> None]

(***************************************************************************)
(* State after the class body, before __init__ runs.                       *)
(***************************************************************************)
Init ==
    /\ pc = "get_youtube_client"
    /\ error = None
    /\ youtube_client = None
    /\ liked_songs = << >>
    /\ all_categories_map = << >>
    /\ categories_histogram = NoHistogram
    /\ categories_histogram_last_month = NoHistogram
    /\ favourite_channels = NoHistogram
    /\ favourite_channels_last_month = NoHistogram
    /\ result = << >>
    /\ page_token = None
    /\ pages = << >>
    /\ request = NoRequest
    /\ videos_requests = 0
    /\ category_requests = 0
    /\ lookup_items = << >>
    /\ clock = NoDate
    /\ since1 = NoDate
    /\ since2 = NoDate
    /\ log = << >>

(***************************************************************************)
(* Statistics.__init__, one step per call it makes; building a request and *)
(* its blocking execute() are two steps.  An exception leaves __init__     *)
(* with the fields as they are.                                            *)
(***************************************************************************)
Raise(e) ==
    /\ pc' = "aborted"
    /\ error' = e

\* get_youtube_client: the OAuth flow and discovery.build may throw.
GetYoutubeClient ==
    /\ pc = "get_youtube_client"
    /\ \/ /\ youtube_client' = "client"
          /\ pc' = "get_liked_videos_batch"
          /\ UNCHANGED error
       \/ /\ Raise("AuthError")
          /\ UNCHANGED youtube_client
    /\ UNCHANGED <<liked_songs, all_categories_map, categories_histogram,
                   categories_histogram_last_month, favourite_channels,
                   favourite_channels_last_month, result, page_token, pages,
                   request, videos_requests, category_requests, lookup_items,
                   clock, since1, since2, log>>

\* Faulty variant: the page token is not passed on.
videos_request_first_page(token) ==
    [api |-> "videos", part |-> "snippet", myRating |-> "like",
     maxResults |-> maxResults, pageToken |-> None]

\* The request get_liked_videos_batch builds.
videos_request(token) ==
    [api |-> "videos", part |-> "snippet", myRating |-> "like",
     maxResults |-> maxResults, pageToken |-> token]

\* get_liked_videos_batch, up to request.execute()
SendLikedVideosRequest ==
    /\ pc = "get_liked_videos_batch"
    /\ request' = videos_request(page_token)
    /\ videos_requests' = videos_requests + 1
    /\ pc' = "execute_videos"
    /\ UNCHANGED <<error, youtube_client, liked_songs, all_categories_map,
                   categories_histogram, categories_histogram_last_month,
                   favourite_channels, favourite_channels_last_month, result,
                   page_token, pages, category_requests, lookup_items, clock,
                   since1, since2, log>>

\* Faulty variant: the new page is put in front.
list_add_swapped(a, b) == b \o a

\* result + new_results
list_add(a, b) == a \o b

\* The collaborator answers with a page; get_liked_videos_batch shapes it
\* and returns, get_all_liked_videos takes the items and the token.
ReceiveLikedVideosResponse ==
    /\ pc = "execute_videos"
    /\ \E items \in SeqsUpTo(RawVideos, MaxVideos - Len(RawItems(pages))),
          next \in Tokens \cup {None} :
          /\ Len(pages) + 1 >= MaxPages => next = None
          /\ LET response == IF next = None THEN [items |-> items]
                              ELSE [items |-> items, nextPageToken |-> next]
                 new_results == response_to_video_list(response)
             IN  /\ pages' = Append(pages, response)
                 /\ result' = IF pages = << >> THEN new_results
                              ELSE list_add(result, new_results)
                 /\ page_token' = Get(response, "nextPageToken")
    /\ pc' = "while"
    /\ UNCHANGED <<error, youtube_client, liked_songs, all_categories_map,
                   categories_histogram, categories_histogram_last_month,
                   favourite_channels, favourite_channels_last_month, request,
                   videos_requests, category_requests, lookup_items, clock,
                   since1, since2, log>>

\* Faulty variant: the loop gives up on a token it has already sent.
loop_continues_unless_repeated(token) ==
    token # None /\ token # request.pageToken

\* while page_token is not None
loop_continues(token) == token # None

\* The loop test of get_all_liked_videos: another batch, or return result
\* to __init__, which stores it in liked_songs; the locals are gone.
While ==
    /\ pc = "while"
    /\ IF loop_continues(page_token)
       THEN /\ pc' = "get_liked_videos_batch"
            /\ UNCHANGED <<liked_songs, result, page_token, pages>>
       ELSE /\ pc' = "get_categories_map"
            /\ liked_songs' = result
            /\ result' = << >>
            /\ page_token' = None
            /\ pages' = << >>
    /\ UNCHANGED <<error, youtube_client, all_categories_map,
                   categories_histogram, categories_histogram_last_month,
                   favourite_channels, favourite_channels_last_month, request,
                   videos_requests, category_requests, lookup_items, clock,
                   since1, since2, log>>

\* request.execute() throws (transport failure).
CollaboratorFails ==
    /\ pc \in {"execute_videos", "execute_categories"}
    /\ Raise("HttpError")
    /\ UNCHANGED <<youtube_client, liked_songs, all_categories_map,
                   categories_histogram, categories_histogram_last_month,
                   favourite_channels, favourite_channels_last_month, result,
                   page_token, pages, request, videos_requests,
                   category_requests, lookup_items, clock, since1, since2,
                   log>>

\* get_categories_map, up to request.execute(): str.join raises TypeError on
\* a None id, before the request is built.
SendCategoriesRequest ==
    /\ pc = "get_categories_map"
    /\ LET ids == categories_ids(liked_songs)
       IN  IF None \in ids
           THEN /\ Raise("TypeError")
                /\ UNCHANGED <<request, category_requests>>
           ELSE /\ \E order \in Orders(ids) :
                      request' = [api |-> "videoCategories",
                                  part |-> "snippet", id |-> Join(order)]
                /\ category_requests' = category_requests + 1
                /\ pc' = "execute_categories"
                /\ UNCHANGED error
    /\ UNCHANGED <<youtube_client, liked_songs, all_categories_map,
                   categories_histogram, categories_histogram_last_month,
                   favourite_channels, favourite_channels_last_month, result,
                   page_token, pages, videos_requests, lookup_items, clock,
                   since1, since2, log>>

\* The collaborator answers the lookup.
ReceiveCategoriesResponse ==
    /\ pc = "execute_categories"
    /\ lookup_items' \in LookupAnswers(MaxCategories)
    /\ pc' = "build_categories_map"
    /\ UNCHANGED <<error, youtube_client, liked_songs, all_categories_map,
                   categories_histogram, categories_histogram_last_month,
                   favourite_channels, favourite_channels_last_month, result,
                   page_token, pages, request, videos_requests,
                   category_requests, clock, since1, since2, log>>

\* get_categories_map, the loop over response['items'], and the assignment
\* to all_categories_map.
BuildCategoriesMap ==
    /\ pc = "build_categories_map"
    /\ all_categories_map' = build_categories_map(lookup_items)
    /\ log' = log \o category_error_lines(lookup_items)
    /\ pc' = "categories_histogram"
    /\ UNCHANGED <<error, youtube_client, liked_songs, categories_histogram,
                   categories_histogram_last_month, favourite_channels,
                   favourite_channels_last_month, result, page_token, pages,
                   request, videos_requests, category_requests, lookup_items,
                   clock, since1, since2>>

\* datetime.datetime.now(): the clock does not run backwards.
Readings == {now \in Clock : clock = NoDate \/ ~After(clock, now, 1)}

\* self.categories_histogram = self.get_categories_histogram()
CategoriesHistogram ==
    /\ pc = "categories_histogram"
    /\ LET o == get_categories_histogram(liked_songs, all_categories_map,
                                         NoDate)
       IN  categories_histogram' = o.histogram
    /\ pc' = "categories_histogram_last_month"
    /\ UNCHANGED <<error, youtube_client, liked_songs, all_categories_map,
                   categories_histogram_last_month, favourite_channels,
                   favourite_channels_last_month, result, page_token, pages,
                   request, videos_requests, category_requests, lookup_items,
                   clock, since1, since2, log>>

\* self.categories_histogram_last_month =
\*     self.get_categories_histogram(last_month())
CategoriesHistogramLastMonth ==
    /\ pc = "categories_histogram_last_month"
    /\ \E now \in Readings :
          LET since == last_month(now)
              o == get_categories_histogram(liked_songs, all_categories_map,
                                            since)
          IN  /\ clock' = now
              /\ since1' = since
              /\ log' = log \o o.lines
              /\ IF o.raised # None
                 THEN /\ Raise(o.raised)
                      /\ UNCHANGED categories_histogram_last_month
                 ELSE /\ categories_histogram_last_month' = o.histogram
                      /\ pc' = "favourite_channels"
                      /\ UNCHANGED error
    /\ UNCHANGED <<youtube_client, liked_songs, all_categories_map,
                   categories_histogram, favourite_channels,
                   favourite_channels_last_month, result, page_token, pages,
                   request, videos_requests, category_requests, lookup_items,
                   since2>>

\* self.favourite_channels = self.get_favourite_channels()
FavouriteChannels ==
    /\ pc = "favourite_channels"
    /\ LET o == get_favourite_channels(liked_songs, NoDate)
       IN  favourite_channels' = o.histogram
    /\ pc' = "favourite_channels_last_month"
    /\ UNCHANGED <<error, youtube_client, liked_songs, all_categories_map,
                   categories_histogram, categories_histogram_last_month,
                   favourite_channels_last_month, result, page_token, pages,
                   request, videos_requests, category_requests, lookup_items,
                   clock, since1, since2, log>>

\* self.favourite_channels_last_month =
\*     self.get_favourite_channels(last_month())
FavouriteChannelsLastMonth ==
    /\ pc = "favourite_channels_last_month"
    /\ \E now \in Readings :
          LET since == last_month(now)
              o == get_favourite_channels(liked_songs, since)
          IN  /\ clock' = now
              /\ since2' = since
              /\ log' = log \o o.lines
              /\ IF o.raised # None
                 THEN /\ Raise(o.raised)
                      /\ UNCHANGED favourite_channels_last_month
                 ELSE /\ favourite_channels_last_month' = o.histogram
                      /\ pc' = "done"
                      /\ UNCHANGED error
    /\ UNCHANGED <<youtube_client, liked_songs, all_categories_map,
                   categories_histogram, categories_histogram_last_month,
                   favourite_channels, result, page_token, pages, request,
                   videos_requests, category_requests, lookup_items, since1>>

Next ==
    \/ GetYoutubeClient
    \/ SendLikedVideosRequest
    \/ ReceiveLikedVideosResponse
    \/ While
    \/ CollaboratorFails
    \/ SendCategoriesRequest
    \/ ReceiveCategoriesResponse
    \/ BuildCategoriesMap
    \/ CategoriesHistogram
    \/ CategoriesHistogramLastMonth
    \/ FavouriteChannels
    \/ FavouriteChannelsLastMonth

Spec == Init /\ [][Next]_vars

\* get_all_liked_videos on its own.
PageNext ==
    \/ GetYoutubeClient
    \/ SendLikedVideosRequest
    \/ ReceiveLikedVideosResponse
    \/ While
    \/ CollaboratorFails

PageSpec == Init /\ [][PageNext]_vars

\* The program runs on while it can, and the collaborator answers.
PageFairSpec == PageSpec /\ WF_vars(PageNext)

(***************************************************************************)
(* The functions on their own: the histograms of drawn songs and a drawn   *)
(* map, and the map of a drawn lookup answer.                              *)
(***************************************************************************)
\* The liked songs get_categories_map lets through: each has a categoryId.
Songs == {song \in {shape_item(v) : v \in RawVideos} : song.categoryId # None}

Maps == {build_categories_map(items) : items \in LookupAnswers(MaxLookup)}

HistInit ==
    /\ pc = "categories_histogram"
    /\ error = None
    /\ youtube_client = "client"
    /\ liked_songs \in SeqsUpTo(Songs, MaxSongs)
    /\ all_categories_map \in Maps
    /\ categories_histogram = NoHistogram
    /\ categories_histogram_last_month = NoHistogram
    /\ favourite_channels = NoHistogram
    /\ favourite_channels_last_month = NoHistogram
    /\ result = << >>
    /\ page_token = None
    /\ pages = << >>
    /\ request = NoRequest
    /\ videos_requests = 0
    /\ category_requests = 0
    /\ lookup_items = << >>
    /\ clock = NoDate
    /\ since1 = NoDate
    /\ since2 = NoDate
    /\ log = << >>

HistNext ==
    \/ CategoriesHistogram
    \/ CategoriesHistogramLastMonth
    \/ FavouriteChannels
    \/ FavouriteChannelsLastMonth

HistSpec == HistInit /\ [][HistNext]_vars

MapInit ==
    /\ pc = "build_categories_map"
    /\ error = None
    /\ youtube_client = "client"
    /\ liked_songs = << >>
    /\ all_categories_map = << >>
    /\ categories_histogram = NoHistogram
    /\ categories_histogram_last_month = NoHistogram
    /\ favourite_channels = NoHistogram
    /\ favourite_channels_last_month = NoHistogram
    /\ result = << >>
    /\ page_token = None
    /\ pages = << >>
    /\ request = NoRequest
    /\ videos_requests = 0
    /\ category_requests = 0
    /\ lookup_items \in LookupAnswers(MaxLookup)
    /\ clock = NoDate
    /\ since1 = NoDate
    /\ since2 = NoDate
    /\ log = << >>

MapNext == BuildCategoriesMap

MapSpec == MapInit /\ [][MapNext]_vars

(***************************************************************************)
(* Properties                                                              *)
(***************************************************************************)
Computed(h) == h # NoHistogram

RECURSIVE Total(_)
Total(h) == IF h = << >> THEN 0 ELSE h[Len(h)][2] + Total(SubSeq(h, 1, Len(h) - 1))

\* The items of the pages in the order served, each shaped.
ShapedInOrder(ps) ==
    LET raw == RawItems(ps)
    IN  [i \in 1..Len(raw) |-> shape_item(raw[i])]

InFetch == pc \in {"get_liked_videos_batch", "execute_videos", "while"}

\* C1: the accumulator of get_all_liked_videos is at every moment the
\* shaped items of the pages served so far, page after page, each page in
\* its own order, none dropped or repeated, and that is what it returns.
C1_PagesConcatenatedInOrder ==
    /\ [](InFetch => result = ShapedInOrder(pages))
    /\ [][(pc = "while" /\ pc' = "get_categories_map")
             => /\ liked_songs' = ShapedInOrder(pages)
                /\ Len(liked_songs') = Len(RawItems(pages))]_vars

\* C1 witness: two pages of one item each, the first with a token, have
\* been received and the loop is about to return.
C1_Witness ==
    /\ pc = "while"
    /\ page_token = None
    /\ Len(pages) = 2
    /\ Len(pages[1]["items"]) = 1
    /\ Len(pages[2]["items"]) = 1
    /\ Get(pages[1]["items"][1]["snippet"], "title") = "t2"
    /\ Get(pages[2]["items"][1]["snippet"], "title") = "t1"
    /\ "nextPageToken" \in DOMAIN pages[1]
    /\ Len(result) = 2
    /\ result[1].title = "t2"
    /\ result[2].title = "t1"

\* C10: get_all_liked_videos returns once a response without a token has
\* arrived, after one request per page served, and only then: while the last
\* response carried a token it issues the next request.
C10_ReturnsOnFirstTokenlessResponse ==
    /\ [][(pc = "while" /\ pc' = "get_categories_map")
             => (page_token = None /\ videos_requests = Len(pages))]_vars
    /\ [][(pc = "while" /\ page_token # None)
             => pc' = "get_liked_videos_batch"]_vars
    /\ ((pc = "while" /\ page_token = None) ~> (pc = "get_categories_map"))
    /\ ((pc = "while" /\ page_token # None)
             ~> (pc = "execute_videos" /\ videos_requests = Len(pages) + 1))

\* C10 witness: the token of the first response came back in the second
\* response and a third request was issued all the same.
C10_Witness ==
    /\ pc = "execute_videos"
    /\ videos_requests = 3
    /\ Len(pages) = 2
    /\ Get(pages[1], "nextPageToken") = "T1"
    /\ Get(pages[2], "nextPageToken") = "T1"

HistogramStage ==
    pc \in {"categories_histogram", "categories_histogram_last_month",
            "favourite_channels", "favourite_channels_last_month", "done"}

AnyHistogramComputed ==
    \/ Computed(categories_histogram)
    \/ Computed(categories_histogram_last_month)
    \/ Computed(favourite_channels)
    \/ Computed(favourite_channels_last_month)

\* C8: the first liked-videos request carries no token; a later one is
\* issued when every earlier response has arrived and carries the token of
\* the last response, which has one; the category lookup is issued once,
\* when get_all_liked_videos has returned and no histogram is computed.
C8_RequestOrder ==
    /\ [][videos_requests' # videos_requests
             => /\ videos_requests' = videos_requests + 1
                /\ request'.api = "videos"
                /\ videos_requests = Len(pages)
                /\ category_requests = 0
                /\ IF videos_requests = 0
                   THEN request'.pageToken = None
                   ELSE /\ "nextPageToken" \in DOMAIN pages[Len(pages)]
                        /\ request'.pageToken
                               = pages[Len(pages)]["nextPageToken"]]_vars
    /\ [][category_requests' # category_requests
             => /\ category_requests = 0
                /\ category_requests' = 1
                /\ request'.api = "videoCategories"
                /\ pc = "get_categories_map"
                /\ videos_requests >= 1
                /\ ~AnyHistogramComputed]_vars
    /\ []((HistogramStage \/ AnyHistogramComputed) => category_requests = 1)
    /\ [](InFetch => videos_requests - Len(pages) \in {0, 1})

\* C8 witness: a construction that went through three pages, the lookup and
\* the four histograms.
C8_Witness ==
    /\ pc = "done"
    /\ videos_requests = 3
    /\ category_requests = 1

\* The record's publishedAt is a string that parses and lies after since.
ParsesAfter(song, since) ==
    /\ song.publishedAt # None
    /\ strptime(song.publishedAt).ok
    /\ After(strptime(song.publishedAt).dt, since, 1)

NumAfter(songs, since) ==
    Cardinality({i \in 1..Len(songs) : ParsesAfter(songs[i], since)})

Titles(songs) == {songs[i].title : i \in 1..Len(songs)}

CountOf(h, x) ==
    LET at == {k \in 1..Len(h) : h[k][1] = x}
    IN  IF at = {} THEN 0 ELSE h[CHOOSE k \in at : TRUE][2]

\* C2: the counts of the two unfiltered histograms sum to the number of
\* liked songs, whatever the publishedAt of a record; the records whose
\* category is not in the map, or whose channel is absent, are counted
\* under None.
C2_UnfilteredCountsEveryRecord ==
    /\ Computed(categories_histogram)
          => /\ Total(categories_histogram) = Len(liked_songs)
             /\ CountOf(categories_histogram, None)
                   = Cardinality({i \in 1..Len(liked_songs) :
                        liked_songs[i].categoryId
                            \notin DOMAIN all_categories_map})
    /\ Computed(favourite_channels)
          => /\ Total(favourite_channels) = Len(liked_songs)
             /\ CountOf(favourite_channels, None)
                   = Cardinality({i \in 1..Len(liked_songs) :
                        liked_songs[i].channelTitle = None})

\* C2 witness: three songs, one without publishedAt and title, one with a
\* publishedAt that does not parse and a category the map lacks, all three
\* counted, one of them under None.
C2_Witness ==
    /\ Computed(categories_histogram)
    /\ Len(liked_songs) = 3
    /\ Titles(liked_songs) = {"t1", "t4", None}
    /\ DOMAIN all_categories_map = {"10"}
    /\ Total(categories_histogram) = 3
    /\ CountOf(categories_histogram, None) = 1

AllStrings(songs) == \A i \in 1..Len(songs) : songs[i].publishedAt # None

\* C3: when every record carries a publishedAt string, the counts of a
\* filtered histogram sum to the number of records whose string parses and
\* lies strictly after the cutoff, and to no more than the unfiltered sum.
C3_FilteredCountsRecordsAfterSince ==
    /\ (Computed(categories_histogram_last_month) /\ AllStrings(liked_songs))
          => /\ Total(categories_histogram_last_month)
                   = NumAfter(liked_songs, since1)
             /\ Total(categories_histogram_last_month)
                   <= Total(categories_histogram)
    /\ (Computed(favourite_channels_last_month) /\ AllStrings(liked_songs))
          => /\ Total(favourite_channels_last_month)
                   = NumAfter(liked_songs, since2)
             /\ Total(favourite_channels_last_month)
                   <= Total(favourite_channels)

\* C3 witness: one song published after the cutoff, one exactly at it, one
\* with a string that does not parse; the filtered histogram counts one.
C3_Witness ==
    /\ Computed(favourite_channels_last_month)
    /\ since2 = <<2026, 10, 5, 12, 0, 0, 0>>
    /\ Len(liked_songs) = 3
    /\ Titles(liked_songs) = {"t1", "t3", "t4"}
    /\ Total(favourite_channels_last_month) = 1
    /\ Total(favourite_channels) = 3

\* The songs a cutoff keeps, in order (all of them without a cutoff).
RECURSIVE Kept(_, _)
Kept(songs, since) ==
    IF songs = << >> THEN << >>
    ELSE LET before == Kept(SubSeq(songs, 1, Len(songs) - 1), since)
             last == songs[Len(songs)]
         IN  IF since = NoDate \/ ParsesAfter(last, since)
             THEN Append(before, last) ELSE before

Categories(songs) ==
    [i \in 1..Len(songs) |-> Get(all_categories_map, songs[i].categoryId)]

Channels(songs) == [i \in 1..Len(songs) |-> songs[i].channelTitle]

First(values, x) ==
    CHOOSE i \in 1..Len(values) :
        values[i] = x /\ \A j \in 1..(i - 1) : values[j] # x

\* h lists each value of values once, with its number of occurrences, the
\* larger counts first.
Ranks(h, values) ==
    /\ {h[k][1] : k \in 1..Len(h)} = {values[i] : i \in 1..Len(values)}
    /\ \A k, l \in 1..Len(h) : k # l => h[k][1] # h[l][1]
    /\ \A k \in 1..Len(h) :
          /\ h[k][2] >= 1
          /\ h[k][2] = Cardinality({i \in 1..Len(values) : values[i] = h[k][1]})
    /\ \A k, l \in 1..Len(h) : k < l => h[k][2] >= h[l][2]

\* Entries of h with equal counts stand in the order of their first
\* occurrence in values.
TiesInOrderOf(h, values) ==
    \A k, l \in 1..Len(h) :
        (k < l /\ h[k][2] = h[l][2])
            => First(values, h[k][1]) < First(values, h[l][1])

\* C7 as stated: every histogram ranks the extracted values by count, and
\* values with equal counts stand in the order of their first occurrence in
\* liked_songs.
C7_TiesInOrderOfLikedSongs ==
    /\ Computed(categories_histogram)
          => /\ Ranks(categories_histogram, Categories(liked_songs))
             /\ TiesInOrderOf(categories_histogram, Categories(liked_songs))
    /\ Computed(favourite_channels)
          => /\ Ranks(favourite_channels, Channels(liked_songs))
             /\ TiesInOrderOf(favourite_channels, Channels(liked_songs))
    /\ Computed(categories_histogram_last_month)
          => /\ Ranks(categories_histogram_last_month,
                      Categories(Kept(liked_songs, since1)))
             /\ TiesInOrderOf(categories_histogram_last_month,
                              Categories(liked_songs))
    /\ Computed(favourite_channels_last_month)
          => /\ Ranks(favourite_channels_last_month,
                      Channels(Kept(liked_songs, since2)))
             /\ TiesInOrderOf(favourite_channels_last_month,
                              Channels(liked_songs))

\* C7 as amended: every histogram ranks the extracted values by count, and
\* values with equal counts stand in the order of their first occurrence
\* among the records the histogram counts (all of liked_songs without a
\* cutoff, the records published after the cutoff with one).
C7_TiesInOrderOfCountedRecords ==
    /\ Computed(categories_histogram)
          => /\ Ranks(categories_histogram, Categories(liked_songs))
             /\ TiesInOrderOf(categories_histogram, Categories(liked_songs))
    /\ Computed(favourite_channels)
          => /\ Ranks(favourite_channels, Channels(liked_songs))
             /\ TiesInOrderOf(favourite_channels, Channels(liked_songs))
    /\ Computed(categories_histogram_last_month)
          => /\ Ranks(categories_histogram_last_month,
                      Categories(Kept(liked_songs, since1)))
             /\ TiesInOrderOf(categories_histogram_last_month,
                              Categories(Kept(liked_songs, since1)))
    /\ Computed(favourite_channels_last_month)
          => /\ Ranks(favourite_channels_last_month,
                      Channels(Kept(liked_songs, since2)))
             /\ TiesInOrderOf(favourite_channels_last_month,
                              Channels(Kept(liked_songs, since2)))

\* C7 witness: a filtered histogram with two values of equal count, the
\* first of which occurs in liked_songs only after the second, in a record
\* the cutoff leaves out.
C7_Witness ==
    /\ Computed(categories_histogram_last_month)
    /\ Len(categories_histogram_last_month) = 2
    /\ categories_histogram_last_month[1][2]
          = categories_histogram_last_month[2][2]
    /\ First(Categories(liked_songs), categories_histogram_last_month[2][1])
          < First(Categories(liked_songs),
                  categories_histogram_last_month[1][1])

HasIdAndTitle(c) ==
    /\ "id" \in DOMAIN c
    /\ "snippet" \in DOMAIN c
    /\ "title" \in DOMAIN c["snippet"]

Good(items) == {i \in 1..Len(items) : HasIdAndTitle(items[i])}

\* C5: the map get_categories_map builds has the entry id -> title of every
\* object of the answer that has both, and no other entry; every other
\* object costs one error line and nothing else.
C5_MapOfWellFormedEntries ==
    pc = "categories_histogram"
      => /\ error = None
         /\ DOMAIN all_categories_map
               = {lookup_items[i]["id"] : i \in Good(lookup_items)}
         /\ \A i \in Good(lookup_items) :
               all_categories_map[lookup_items[i]["id"]]
                   = lookup_items[i]["snippet"]["title"]
         /\ Len(log) = Len(lookup_items) - Cardinality(Good(lookup_items))
         /\ \A k \in 1..Len(log) : log[k] = "Incorrect category body"

\* C5 witness: an object without title, then a well-formed one, then one
\* without id; the map holds the well-formed one alone.
C5_Witness ==
    /\ pc = "categories_histogram"
    /\ lookup_items
          = << [id |-> "10", snippet |-> [assignable |-> "true"]],
               [id |-> "20",
                snippet |-> [assignable |-> "true", title |-> "Film"]],
               [snippet |-> [assignable |-> "true", title |-> "Comedy"]] >>
    /\ DOMAIN all_categories_map = {"20"}
    /\ all_categories_map["20"] = "Film"
    /\ Len(log) = 2

\* C4 as stated: once the last-month cutoff has been applied to liked songs
\* of which one has no publishedAt, construction has not been aborted, the
\* filtered histogram is there and counts the records after the cutoff, and
\* an error line has been written.
C4_AbsentDateIsSkipped ==
    (since1 # NoDate /\ ~AllStrings(liked_songs))
      => /\ pc # "aborted"
         /\ Computed(categories_histogram_last_month)
         /\ Total(categories_histogram_last_month)
               = NumAfter(liked_songs, since1)
         /\ \E k \in 1..Len(log) : log[k] = "Incorrect published_at format"

CollaboratorErrors == {"AuthError", "HttpError"}

\* C6 as stated: with a liked video that has no categoryId, construction is
\* aborted by a collaborator failure only.
C6_AbsentCategoryDoesNotAbort ==
    (pc = "aborted"
        /\ \E i \in 1..Len(liked_songs) : liked_songs[i].categoryId = None)
      => error \in CollaboratorErrors

\* C9 as stated: in a constructed snapshot the two last-month histograms
\* have the same total.
C9_LastMonthTotalsAgree ==
    pc = "done"
      => Total(categories_histogram_last_month)
            = Total(favourite_channels_last_month)

====
